---- MODULE Spec2Model ----
(***************************************************************************)
(* Model of the decoding and label-unification pipeline of tner/data.py:   *)
(* decode_file, decode_all_files, get_dataset_single, get_dataset and      *)
(* conll_formatting.                                                       *)
(*                                                                         *)
(* Representation of Python strings.  A string without spaces is the       *)
(* sequence of its '-'-separated parts, i.e. the value of s.split('-'):    *)
(* "I-PER" is <<"I","PER">>, "O" is <<"O">>, "" is <<"">>.  A string that  *)
(* may hold spaces (a decoded token) is the sequence of its ' '-separated  *)
(* columns, i.e. the value of s.split(' '): "New York" is                  *)
(* << <<"New">>, <<"York">> >> and "" is << <<"">> >>.  With this          *)
(* representation split is the identity and join is concatenation, except  *)
(* on the empty list, whose join is the empty string.                      *)
(***************************************************************************)
EXTENDS Integers, Sequences, FiniteSets, TLC

\* ---------------------------------------------------------------- bounds
MaxLines == 3     \* lines read over all decode_file calls of one behaviour
MaxCalls == 2     \* decode_file calls threading the same vocabulary

\* ------------------------------------------------------- string helpers
S(a) == <<a>>                 \* the dash-free, space-free string a
T(a) == << <<a>> >>           \* the same string seen as a token (one column)

EmptyStr == <<"">>
EmptyToken == << EmptyStr >>

RECURSIVE Flatten(_)
Flatten(ss) == IF ss = <<>> THEN <<>> ELSE Head(ss) \o Flatten(Tail(ss))

DashSplit(s) == [i \in 1..Len(s) |-> <<s[i]>>]
DashJoin(ss) == IF ss = <<>> THEN EmptyStr ELSE Flatten(ss)
SpaceJoin(cols) == IF cols = <<>> THEN EmptyToken ELSE cols

Range(s) == {s[i] : i \in 1..Len(s)}

LowerAtom(a) ==
    CASE a = "NYC" -> "nyc"
      [] a = "None" -> "none"
      [] a = "O" -> "o"
      [] a = "I" -> "i"
      [] a = "B" -> "b"
      [] a = "PER" -> "per"
      [] a = "LOC" -> "loc"
      [] OTHER -> a
lower(tok) == [i \in 1..Len(tok) |-> [j \in 1..Len(tok[i]) |-> LowerAtom(tok[i][j])]]

\* ------------------------------------------------------------ constants
STOPWORDS == {T("None"), T("#")}

\* the entries of the synonym table that the modelled corpora use, in
\* declaration order
SHARED_NER_LABEL == <<
    [k |-> S("location"),     v |-> {S("LOCATION"), S("LOC"), S("location"), S("Location")}],
    [k |-> S("organization"), v |-> {S("ORGANIZATION"), S("ORG"), S("organization")}],
    [k |-> S("person"),       v |-> {S("PERSON"), S("PSN"), S("person"), S("PER")}],
    [k |-> S("other"),        v |-> {S("OTHER"), S("MISC")}] >>

O == S("O")

\* --------------------------------------------------------- label_to_id
\* A dict is the sequence of its items in insertion order.
Item(label, id) == [label |-> label, id |-> id]
Keys(d) == {d[i].label : i \in 1..Len(d)}
Values(d) == {d[i].id : i \in 1..Len(d)}
Get(d, key) == d[CHOOSE i \in 1..Len(d) : d[i].label = key].id
\* {v: k for k, v in d.items()}: a later item overwrites an earlier one
Inverse(d) ==
    [id \in Values(d) |->
        LET last == CHOOSE i \in 1..Len(d) :
                        /\ d[i].id = id
                        /\ \A j \in (i+1)..Len(d) : d[j].id # id
        IN d[last].label]

\* ------------------------------------------------------------- the file
\* A line after line.strip(): its kind is the outcome of the prefix tests
\* of the loop ('# id ', '# "id":', empty, "-DOCSTART-"), cols is
\* line.split(' ') and date the text after '"created_at": '.
Blank == [kind |-> "blank", cols |-> <<>>, date |-> ""]
DOCSTART == <<"", "DOCSTART", "">>
DocStart == [kind |-> "docstart", cols |-> <<DOCSTART>>, date |-> ""]
Header == [kind |-> "header", cols |-> <<S("#"), S("id"), S("x")>>, date |-> ""]
Meta(d) == [kind |-> "meta", cols |-> <<S("#"), S("id")>>, date |-> d]
Cols(cs) == [kind |-> "cols", cols |-> cs, date |-> ""]

\* ----------------------------------------------------------- decode_file
Flags == [fix_label_dict : BOOLEAN, entity_first : BOOLEAN, to_bio : BOOLEAN,
          allow_new_entity : BOOLEAN, keep_original_surface : BOOLEAN]

\* the locals of decode_file at its first line
Locals(label_to_id) ==
    [inputs |-> <<>>, labels |-> <<>>, dates |-> <<>>,
     sentence |-> <<>>, entity |-> <<>>,
     label_to_id |-> label_to_id, past_mention |-> O, err |-> "none"]

\* ls = [i for i in line.split(' ') if i != '_']
Columns(line) == SelectSeq(line.cols, LAMBDA c : c # S("_"))

\* tag, word = ls[0], ls[1:-1]   or   word, tag = ls[0:-1], ls[-1]
SplitColumns(ls, entity_first) ==
    IF entity_first
    THEN [tag |-> ls[1], word |-> SpaceJoin(SubSeq(ls, 2, Len(ls) - 1))]
    ELSE [tag |-> ls[Len(ls)], word |-> SpaceJoin(SubSeq(ls, 1, Len(ls) - 1))]

\* "convert tag into unified label set": the new tag and the new past_mention
UnifyTag(tag, past_mention, fl) ==
    IF tag # O
    THEN LET mention == DashJoin(Tail(DashSplit(tag)))
             location == IF fl.to_bio /\ mention = past_mention THEN S("I")
                         ELSE IF fl.to_bio THEN S("B")
                         ELSE DashSplit(tag)[1]
             fixed_mention == SelectSeq(SHARED_NER_LABEL, LAMBDA e : mention \in e.v)
         IN [tag |-> IF fl.keep_original_surface THEN tag
                     ELSE IF Len(fixed_mention) = 0 /\ fl.allow_new_entity
                          THEN DashJoin(<<location, mention>>)
                     ELSE IF Len(fixed_mention) = 0 THEN O
                     ELSE DashJoin(<<location, fixed_mention[1].k>>),
             past_mention |-> mention]
    ELSE [tag |-> O, past_mention |-> O]

\* AssignId with the fix_label_dict test forgotten
AssignId_IgnoreFix(tag, label_to_id, fix_label_dict) ==
    IF tag \notin Keys(label_to_id)
    THEN [tag |-> tag, label_to_id |-> Append(label_to_id, Item(tag, Len(label_to_id)))]
    ELSE [tag |-> tag, label_to_id |-> label_to_id]

\* AssignId numbering from 1: label_to_id[tag] = len(label_to_id) + 1
AssignId_FromOne(tag, label_to_id, fix_label_dict) ==
    IF tag \notin Keys(label_to_id) /\ fix_label_dict
    THEN [tag |-> O, label_to_id |-> label_to_id]
    ELSE IF tag \notin Keys(label_to_id)
    THEN [tag |-> tag, label_to_id |-> Append(label_to_id, Item(tag, Len(label_to_id) + 1))]
    ELSE [tag |-> tag, label_to_id |-> label_to_id]

\* "if label dict is fixed, unknown tag type will be ignored"
AssignId(tag, label_to_id, fix_label_dict) ==
    IF tag \notin Keys(label_to_id) /\ fix_label_dict
    THEN [tag |-> O, label_to_id |-> label_to_id]
    ELSE IF tag \notin Keys(label_to_id)
    THEN [tag |-> tag, label_to_id |-> Append(label_to_id, Item(tag, Len(label_to_id)))]
    ELSE [tag |-> tag, label_to_id |-> label_to_id]

\* the sentence is closed on an empty line or a "-DOCSTART-" line
CloseSentence(s) ==
    IF Len(s.sentence) # 0
    THEN IF Len(s.sentence) # Len(s.entity)
         THEN [s EXCEPT !.err = "AssertionError"]
         ELSE [s EXCEPT !.inputs = Append(@, s.sentence),
                        !.labels = Append(@, s.entity),
                        !.sentence = <<>>, !.entity = <<>>]
    ELSE s

\* a line that reaches sentence.append(word)
IsToken(line, fl) ==
    /\ line.kind = "cols"
    /\ Len(Columns(line)) >= 2
    /\ SplitColumns(Columns(line), fl.entity_first).tag # S("junk")
    /\ SplitColumns(Columns(line), fl.entity_first).word \notin STOPWORDS

\* sentence.append(word) ... entity.append(label_to_id[tag])
TokenLine(s, line, fl) ==
    LET c == SplitColumns(Columns(line), fl.entity_first)
        u == UnifyTag(c.tag, s.past_mention, fl)
        a == AssignId(u.tag, s.label_to_id, fl.fix_label_dict)
    IN IF a.tag \notin Keys(a.label_to_id)
       THEN [s EXCEPT !.sentence = Append(@, c.word),
                      !.past_mention = u.past_mention,
                      !.label_to_id = a.label_to_id,
                      !.err = "KeyError"]
       ELSE [s EXCEPT !.sentence = Append(@, c.word),
                      !.past_mention = u.past_mention,
                      !.label_to_id = a.label_to_id,
                      !.entity = Append(@, Get(a.label_to_id, a.tag))]

\* one iteration of "for n, line in enumerate(f)"
LoopBody(s, line, fl) ==
    IF line.kind = "header" THEN s
    ELSE IF line.kind = "meta" THEN [s EXCEPT !.dates = Append(@, line.date)]
    ELSE IF line.kind \in {"blank", "docstart"} THEN CloseSentence(s)
    ELSE IF IsToken(line, fl) THEN TokenLine(s, line, fl)
    ELSE s

\* UnseenEntityLabel without the subtraction of the ids in use
UnseenEntityLabel_NoSubtract(label_to_id, labels) ==
    LET id_to_label == Inverse(label_to_id)
    IN {id_to_label[i] : i \in Values(label_to_id)}

\* the statements after the loop
UnseenEntityLabel(label_to_id, labels) ==
    LET id_to_label == Inverse(label_to_id)
        unseen_entity_id == Values(label_to_id) \ Range(Flatten(labels))
    IN {id_to_label[i] : i \in unseen_entity_id}

Failure(e) == [err |-> e]

\* ReturnValue without "assert len(dates) == len(labels) == len(inputs)"
ReturnValue_NoAssert(s) ==
    IF Len(s.dates) > 0
    THEN [err |-> "none", label_to_id |-> s.label_to_id,
          unseen_entity_label |-> UnseenEntityLabel(s.label_to_id, s.labels),
          split |-> [data |-> s.inputs, label |-> s.labels, date |-> s.dates]]
    ELSE [err |-> "none", label_to_id |-> s.label_to_id,
          unseen_entity_label |-> UnseenEntityLabel(s.label_to_id, s.labels),
          split |-> [data |-> s.inputs, label |-> s.labels]]

ReturnValue(s) ==
    IF Len(s.dates) > 0
    THEN IF Len(s.dates) = Len(s.labels) /\ Len(s.labels) = Len(s.inputs)
         THEN [err |-> "none", label_to_id |-> s.label_to_id,
               unseen_entity_label |-> UnseenEntityLabel(s.label_to_id, s.labels),
               split |-> [data |-> s.inputs, label |-> s.labels, date |-> s.dates]]
         ELSE Failure("AssertionError")
    ELSE [err |-> "none", label_to_id |-> s.label_to_id,
          unseen_entity_label |-> UnseenEntityLabel(s.label_to_id, s.labels),
          split |-> [data |-> s.inputs, label |-> s.labels]]

RECURSIVE Loop(_, _, _)
Loop(s, file, fl) ==
    IF file = <<>> \/ s.err # "none" THEN s
    ELSE Loop(LoopBody(s, Head(file), fl), Tail(file), fl)

\* decode_file as a function of the file's lines and the vocabulary
\* (a raise leaves the caller's dict as the loop has updated it)
Raised(e, d) == [err |-> e, label_to_id |-> d]

\* what the call gives for the locals s the loop ends in and the value r of
\* the statements after it
Outcome(s, r) ==
    IF s.err # "none" THEN Raised(s.err, s.label_to_id)
    ELSE IF r.err # "none" THEN Raised(r.err, s.label_to_id)
    ELSE r

AfterLoop(s) == Outcome(s, ReturnValue(s))

decode_file(file, label_to_id, fl) == AfterLoop(Loop(Locals(label_to_id), file, fl))

\* ------------------------------------------------------- the file system
I_PER == <<"I", "PER">>
B_PER == <<"B", "PER">>
I_LOC == <<"I", "LOC">>
B_LOC == <<"B", "LOC">>
I_XYZ == <<"I", "XYZ">>
Tok(w, tag) == Cols(<<S(w), tag>>)

\* the files of the cache directory and the custom files, as they are
\* after download and conll_formatting; NoPath is data_path=None
NoPath == "None"
Content(data_path, file_name) ==
    CASE data_path = "conll2003" /\ file_name = "train.txt" ->
            <<Tok("NYC", B_LOC), Tok("a", O), Blank>>
      [] data_path = "conll2003" /\ file_name = "dev.txt" ->
            <<Tok("a", I_PER), Blank>>
      [] data_path = "conll2003" /\ file_name = "test.txt" ->
            <<Tok("a", O), Blank>>
      [] data_path = "fin" /\ file_name = "FIN5.txt" ->
            <<Tok("b", I_PER), Tok("b", I_PER), Blank>>
      [] data_path = "fin" /\ file_name = "FIN3.txt" ->
            <<Tok("b", I_LOC), Blank>>
      [] data_path = "mit_restaurant" /\ file_name = "restauranttrain.bio" ->
            <<Cols(<<O, S("c")>>), Cols(<<B_LOC, S("c"), S("d")>>), Blank>>
      [] data_path = "mit_restaurant" /\ file_name = "restauranttest.bio" ->
            <<Cols(<<O, S("c"), S("d")>>), Blank>>
      [] data_path = "panx_dataset_ja" /\ file_name = "dev.txt" ->
            <<Tok("xy", B_LOC), Blank>>
      [] data_path = "panx_dataset_ja" /\ file_name = "train.txt" ->
            <<Tok("xy", O), Tok("a", B_PER), Blank>>
      [] data_path = "panx_dataset_ja" /\ file_name = "test.txt" ->
            <<Tok("a", O), Blank>>
      [] data_path = NoPath /\ file_name = "p1" ->
            <<Meta("d1"), Tok("NYC", B_LOC), Tok("a", O), Blank>>
      [] data_path = NoPath /\ file_name = "p2" ->
            <<Tok("a", I_PER), Blank>>
      [] OTHER -> <<>>

\* os.path.exists(v) for a custom file
Exists(v) == v \in {"p1", "p2"}

File(name, path) == [name |-> name, path |-> path]

\* the branches of "if data_name in [...] / elif ..." of get_dataset_single
Preset(data_name) ==
    CASE data_name = "conll2003" ->
            [files_info |-> <<File("train", "train.txt"), File("valid", "dev.txt"),
                              File("test", "test.txt")>>,
             entity_first |-> FALSE, to_bio |-> FALSE,
             language |-> "en", post_process_ja |-> FALSE]
      [] data_name = "fin" ->
            [files_info |-> <<File("train", "FIN5.txt"), File("valid", "FIN3.txt")>>,
             entity_first |-> FALSE, to_bio |-> TRUE,
             language |-> "en", post_process_ja |-> FALSE]
      [] data_name = "mit_restaurant" ->
            [files_info |-> <<File("train", "restauranttrain.bio"),
                              File("valid", "restauranttest.bio")>>,
             entity_first |-> TRUE, to_bio |-> FALSE,
             language |-> "en", post_process_ja |-> FALSE]
      [] data_name = "panx_dataset_ja" ->
            [files_info |-> <<File("valid", "dev.txt"), File("train", "train.txt"),
                              File("test", "test.txt")>>,
             entity_first |-> FALSE, to_bio |-> FALSE,
             language |-> "ja", post_process_ja |-> TRUE]

KnownData == {"conll2003", "fin", "mit_restaurant", "panx_dataset_ja"}

\* ------------------------------------------------------ decode_all_files
\* a dict of splits is the sequence of its items in insertion order
Entry(name, split) == [name |-> name, split |-> split]
Names(d) == [i \in 1..Len(d) |-> d[i].name]
SplitOf(d, name) == d[CHOOSE i \in 1..Len(d) : d[i].name = name].split

\* one iteration of the loop over files.items(), r being what decode_file
\* gave for the file; first is "unseen_entity is None"
DecodeAllBody(acc, name, r) ==
    IF r.err # "none"
    THEN [acc EXCEPT !.err = r.err, !.label_to_id = r.label_to_id, !.opened = @ + 1]
    ELSE [err |-> "none",
          data_split |-> Append(acc.data_split, Entry(name, r.split)),
          unseen_entity |-> IF acc.first THEN r.unseen_entity_label
                            ELSE acc.unseen_entity \cap r.unseen_entity_label,
          first |-> FALSE,
          label_to_id |-> r.label_to_id,
          opened |-> acc.opened + 1]

RECURSIVE DecodeAllLoop(_, _, _, _)
DecodeAllLoop(acc, files, data_path, fl) ==
    IF files = <<>> \/ acc.err # "none" THEN acc
    ELSE DecodeAllLoop(
            DecodeAllBody(acc, Head(files).name,
                          decode_file(Content(data_path, Head(files).path),
                                      acc.label_to_id, fl)),
            Tail(files), data_path, fl)

\* decode_all_files(files, ...) for a non-empty files; opened counts the
\* files opened by decode_file
decode_all_files(files, label_to_id, data_path, fl) ==
    DecodeAllLoop([err |-> "none", data_split |-> <<>>, unseen_entity |-> {},
                   first |-> TRUE, label_to_id |-> label_to_id, opened |-> 0],
                  files, data_path, fl)

\* ---------------------------------------------------- get_dataset_single
\* SudachiWrapper.fix_ja_labels: the sentence re-tokenized, with one label
\* per new token; here the token "xy" becomes "x", "y" under its label
RECURSIVE fix_ja_labels(_, _)
fix_ja_labels(inputs, labs) ==
    IF inputs = <<>> THEN [data |-> <<>>, label |-> <<>>]
    ELSE LET rest == fix_ja_labels(Tail(inputs), Tail(labs))
         IN IF Head(inputs) = T("xy")
            THEN [data |-> <<T("x"), T("y")>> \o rest.data,
                  label |-> <<Head(labs), Head(labs)>> \o rest.label]
            ELSE [data |-> <<Head(inputs)>> \o rest.data,
                  label |-> <<Head(labs)>> \o rest.label]

\* the body of "for x, y in zip(v['data'], v['label'])" over one split:
\* data and label grow by the re-tokenized sentences
RECURSIVE FixSentences(_, _, _, _)
FixSentences(acc, xs, ys, d) ==
    IF xs = <<>> \/ ys = <<>> \/ acc.err # "none" THEN acc
    ELSE LET y == [j \in 1..Len(Head(ys)) |-> Inverse(d)[Head(ys)[j]]]
             f == fix_ja_labels(Head(xs), y)
         IN IF \E j \in 1..Len(f.label) : f.label[j] \notin Keys(d)
            THEN [acc EXCEPT !.err = "KeyError"]
            ELSE FixSentences(
                    [acc EXCEPT !.data = Append(@, f.data),
                                !.label = Append(@, [j \in 1..Len(f.label) |-> Get(d, f.label[j])])],
                    Tail(xs), Tail(ys), d)

RECURSIVE FixSplits(_, _, _)
FixSplits(acc, items, d) ==
    IF items = <<>> THEN acc
    ELSE FixSplits(FixSentences(acc, Head(items).split.data, Head(items).split.label, d),
                   Tail(items), d)

\* "if post_process_ja": the lists data and label are created once, before
\* the loop over the splits, and every split is given these same two lists
PostProcessJa(data_split_all, d) ==
    LET acc == FixSplits([err |-> "none", data |-> <<>>, label |-> <<>>],
                         data_split_all, d)
    IN IF acc.err # "none" THEN Raised(acc.err, d)
       ELSE [err |-> "none",
             data_split_all |->
                [i \in 1..Len(data_split_all) |->
                    Entry(data_split_all[i].name,
                          [data_split_all[i].split EXCEPT !.data = acc.data,
                                                          !.label = acc.label])]]

\* "if lower_case": every split is rebuilt from its data and label
LowerCase(data_split_all) ==
    [i \in 1..Len(data_split_all) |->
        Entry(data_split_all[i].name,
              [data |-> [k \in 1..Len(data_split_all[i].split.data) |->
                            [j \in 1..Len(data_split_all[i].split.data[k]) |->
                                lower(data_split_all[i].split.data[k][j])]],
               label |-> data_split_all[i].split.label])]

NoLanguage == "None"     \* custom_data without the key 'language'
NoName == "None"         \* data_name=None

\* the arguments of one get_dataset_single call
\* (allow_new_entity keeps its default, True)
SingleFlags(c, cfg) ==
    [fix_label_dict |-> c.fix_label_dict, entity_first |-> cfg.entity_first,
     to_bio |-> cfg.to_bio, allow_new_entity |-> TRUE,
     keep_original_surface |-> c.keep_original_surface]

CustomConfig(custom_data) ==
    [files_info |-> custom_data.files, entity_first |-> FALSE, to_bio |-> FALSE,
     language |-> IF custom_data.language # NoLanguage THEN custom_data.language
                  ELSE "en",
     post_process_ja |-> FALSE]

\* "if lower_case" and the return statement, a being what decode_all_files
\* gave and j what the step "if post_process_ja" made of its splits
ReturnSingle(c, cfg, a, j) ==
    IF j.err # "none"
    THEN [err |-> j.err, label_to_id |-> a.label_to_id, opened |-> a.opened]
    ELSE [err |-> "none",
          data_split_all |-> IF c.lower_case THEN LowerCase(j.data_split_all)
                             ELSE j.data_split_all,
          label_to_id |-> a.label_to_id,
          language |-> cfg.language,
          unseen_entity_set |-> a.unseen_entity,
          opened |-> a.opened]

\* the statements after decode_all_files, a being what it gave
AfterDecode(c, cfg, a) ==
    IF a.err # "none"
    THEN [err |-> a.err, label_to_id |-> a.label_to_id, opened |-> a.opened]
    ELSE ReturnSingle(c, cfg, a,
            IF cfg.post_process_ja THEN PostProcessJa(a.data_split, a.label_to_id)
            ELSE [err |-> "none", data_split_all |-> a.data_split])

\* from decode_all_files to the return statement
LoadFiles(c, cfg, data_path) ==
    AfterDecode(c, cfg,
        decode_all_files(cfg.files_info, c.label_to_id, data_path, SingleFlags(c, cfg)))

\* "raise ValueError('unknown data ...')" / "raise ValueError('... not found')"
Unknown(c) ==
    IF c.data_name # NoName THEN c.data_name \notin KnownData
    ELSE \E i \in 1..Len(c.custom_data.files) : ~Exists(c.custom_data.files[i].path)

\* get_dataset_single(data_name, custom_data, label_to_id, fix_label_dict,
\* lower_case, keep_original_surface), the arguments being the fields of c
get_dataset_single(c) ==
    IF Unknown(c)
    THEN [err |-> "ValueError", label_to_id |-> c.label_to_id, opened |-> 0]
    ELSE LoadFiles(c,
            IF c.data_name # NoName THEN Preset(c.data_name)
            ELSE CustomConfig(c.custom_data),
            IF c.data_name # NoName THEN c.data_name ELSE NoPath)

\* ------------------------------------------------------------ get_dataset
Count(x, seq) == Cardinality({i \in 1..Len(seq) : seq[i] = x})

\* the languages that lead sorted(freq, key=count, reverse=True): one of
\* them comes first, depending on the iteration order of set(languages)
MostFrequent(langs) ==
    {x \in Range(langs) : \A y \in Range(langs) : Count(y, langs) <= Count(x, langs)}

\* the merged split in reverse dataset order
UnifiedTrain_Reversed(ds) ==
    <<Entry("train",
        [data |-> Flatten([i \in 1..Len(ds) |-> SplitOf(ds[Len(ds) + 1 - i], "train").data]),
         label |-> Flatten([i \in 1..Len(ds) |-> SplitOf(ds[Len(ds) + 1 - i], "train").label])])>>

\* unified_data when len(data) > 1
UnifiedTrain(ds) ==
    <<Entry("train",
        [data |-> Flatten([i \in 1..Len(ds) |-> SplitOf(ds[i], "train").data]),
         label |-> Flatten([i \in 1..Len(ds) |-> SplitOf(ds[i], "train").label])])>>

\* "unseen_entity_set = ues if len(unseen_entity_set) == 0 else
\*  unseen_entity_set.intersection(ues)"
NextUnseen(unseen, ues) == IF Cardinality(unseen) = 0 THEN ues ELSE unseen \cap ues

\* ------------------------------------------------------ conll_formatting
\* The text of a line is the sequence of its ' '-separated columns.
NoDivision == <<>>                \* sentence_division=None
EmptyLine == EmptyToken           \* f.write('\n')

\* '{0} {1}\n'.format(__token, __tag)
FormatLine(token, tag) == token \o <<tag>>

\* the inner loop over one row: the lines written and the value of _end
RECURSIVE WriteRow(_, _, _, _)
WriteRow(w, _token, _tag, division) ==
    IF _token = <<>> \/ _tag = <<>> THEN w
    ELSE LET line == FormatLine(Head(_token), Head(_tag))
             w1 == IF division # NoDivision /\ Head(_token) = division
                   THEN [out |-> w.out \o <<line, EmptyLine>>, end |-> TRUE]
                   ELSE [out |-> Append(w.out, line), end |-> FALSE]
         IN WriteRow(w1, Tail(_token), Tail(_tag), division)

\* EndRow without the "else: f.write('\n')" that separates two rows
EndRow_NoBlank(w) == [out |-> w.out, end |-> ~w.end]

\* "if _end: _end = False  else: f.write('\n'); _end = True"
EndRow(w) ==
    IF w.end THEN [out |-> w.out, end |-> FALSE]
    ELSE [out |-> Append(w.out, EmptyLine), end |-> TRUE]

RECURSIVE WriteRows(_, _, _, _)
WriteRows(w, toks, tgs, division) ==
    IF toks = <<>> THEN [err |-> "none", file |-> w.out]
    ELSE IF Len(Head(toks)) # Len(Head(tgs)) THEN Failure("AssertionError")
    ELSE WriteRows(EndRow(WriteRow(w, Head(toks), Head(tgs), division)),
                   Tail(toks), Tail(tgs), division)

\* conll_formatting(output_file, tokens=..., tags=..., sentence_division=...):
\* the lines of output_file
conll_formatting(toks, tgs, division) ==
    IF toks = <<>> \/ tgs = <<>> THEN Failure("AssertionError")
    ELSE IF Len(toks) # Len(tgs) THEN Failure("AssertionError")
    ELSE WriteRows([out |-> <<>>, end |-> FALSE], toks, tgs, division)

\* line.strip(): spaces at both ends are empty columns at both ends
RECURSIVE StripLeft(_)
StripLeft(cols) ==
    IF cols # <<>> /\ Head(cols) = EmptyStr THEN StripLeft(Tail(cols)) ELSE cols
RECURSIVE StripRight(_)
StripRight(cols) ==
    IF cols # <<>> /\ cols[Len(cols)] = EmptyStr
    THEN StripRight(SubSeq(cols, 1, Len(cols) - 1)) ELSE cols
Strip(cols) == StripRight(StripLeft(cols))

\* a line of text as the loop of decode_file sees it (a '# "id":' line
\* cannot be written from the tokens modelled here)
ParseLine(text) ==
    LET cols == Strip(text)
    IN IF cols = <<>> THEN Blank
       ELSE IF Len(cols) >= 3 /\ cols[1] = S("#") /\ cols[2] = S("id") THEN Header
       ELSE IF Len(cols[1]) >= 3 /\ SubSeq(cols[1], 1, 2) = SubSeq(DOCSTART, 1, 2) THEN DocStart
       ELSE Cols(cols)

ReadFile(file) == [i \in 1..Len(file) |-> ParseLine(file[i])]

\* ------------------------------------------------- the decoder, by line
\* One behaviour is a caller threading one vocabulary through up to
\* MaxCalls calls of decode_file with the same flags; each call reads a
\* file line by line, the lines being chosen as they are read.
VARIABLES fl, vocab0, frame, pc, result, n, calls, raw, last, seen

\* the line the loop has just read, kept by the specification that follows
\* the loop body line by line (SpecLine)
VARIABLE line_read

\* the variables of the format converter followed by a decode
VARIABLES tokens, tags, sentence_division, output_file, decoded, cpc

\* the variables of get_dataset: its arguments (request, label_to_id), its
\* locals, its position gpc and its return value; call and reply are the
\* arguments and the outcome of its latest get_dataset_single call, opened
\* the number of files opened so far
VARIABLES request, label_to_id, data, languages, unseen_entity_set, returned,
          gpc, call, reply, opened

decoder == <<fl, vocab0, frame, pc, result, n, calls, raw, last, seen, line_read>>
converter == <<tokens, tags, sentence_division, output_file, decoded, cpc>>
dataset == <<request, label_to_id, data, languages, unseen_entity_set, returned,
             gpc, call, reply, opened>>
vars == <<decoder, converter, dataset>>

NoCustom == [language |-> NoLanguage, files |-> <<>>]
NoCall == [data_name |-> NoName, custom_data |-> NoCustom, label_to_id |-> <<>>,
           fix_label_dict |-> FALSE, lower_case |-> FALSE,
           keep_original_surface |-> FALSE]

DatasetIdle ==
    /\ request = [kind |-> "none", data |-> <<>>, custom_data |-> NoCustom,
                  label_to_id |-> <<>>,
                  fix_label_dict |-> FALSE, lower_case |-> FALSE,
                  keep_original_surface |-> FALSE]
    /\ label_to_id = <<>>
    /\ data = <<>>
    /\ languages = <<>>
    /\ unseen_entity_set = {}
    /\ returned = [err |-> "pending"]
    /\ gpc = "idle"
    /\ call = NoCall
    /\ reply = [err |-> "pending"]
    /\ opened = 0

ConverterIdle ==
    /\ tokens = <<>>
    /\ tags = <<>>
    /\ sentence_division = <<>>
    /\ output_file = <<>>
    /\ decoded = [err |-> "pending"]
    /\ cpc = "idle"

Lines ==
    {Blank, DocStart, Header, Meta("d1"),
     Cols(<<S("a"), O>>), Cols(<<S("a"), I_PER>>), Cols(<<S("a"), B_PER>>),
     Cols(<<S("a"), I_LOC>>), Cols(<<S("a"), I_XYZ>>),
     Cols(<<S("a"), S("junk")>>), Cols(<<S("None"), O>>),
     Cols(<<S("a"), S("_"), S("_"), O>>), Cols(<<S("a")>>),
     Cols(<<O, S("a"), S("b")>>), Cols(<<I_PER, S("a")>>)}

\* the vocabularies a caller supplies: none, the one of a trained model,
\* one without "O", one whose ids do not start at 0
InitVocabs ==
    {<<>>,
     <<Item(<<"B", "location">>, 0), Item(<<"B", "person">>, 1), Item(O, 2)>>,
     <<Item(<<"B", "person">>, 0)>>,
     <<Item(O, 1)>>}

NoToken == [raw |-> <<>>, unified |-> <<>>]
NoLine == [kind |-> "none", cols |-> <<>>, date |-> ""]

DecoderIdle ==
    /\ fl = [fix_label_dict |-> FALSE, entity_first |-> FALSE, to_bio |-> FALSE,
             allow_new_entity |-> FALSE, keep_original_surface |-> FALSE]
    /\ vocab0 = <<>>
    /\ frame = Locals(<<>>)
    /\ pc = "idle"
    /\ result = Failure("pending")
    /\ n = 0
    /\ calls = 0
    /\ raw = <<>>
    /\ last = NoToken
    /\ seen = <<>>
    /\ line_read = NoLine

Init ==
    /\ fl \in Flags
    /\ vocab0 \in InitVocabs
    /\ frame = Locals(vocab0)
    /\ pc = "loop"
    /\ result = Failure("pending")
    /\ n = 0
    /\ calls = 1
    /\ raw = <<>>
    /\ last = NoToken
    /\ seen = <<>>
    /\ line_read = NoLine
    /\ ConverterIdle
    /\ DatasetIdle

\* the loop reads one more line
ReadLine ==
    /\ pc = "loop"
    /\ n < MaxLines
    /\ \E line \in Lines :
        LET s1 == LoopBody(frame, line, fl)
            c == SplitColumns(Columns(line), fl.entity_first)
            u == UnifyTag(c.tag, frame.past_mention, fl)
        IN /\ frame' = s1
           /\ pc' = IF s1.err # "none" THEN "aborted" ELSE "loop"
           /\ result' = IF s1.err # "none" THEN Failure(s1.err) ELSE result
           /\ raw' = IF IsToken(line, fl) THEN Append(raw, c.tag)
                     ELSE IF line.kind \in {"blank", "docstart"} THEN <<>>
                     ELSE raw
           /\ last' = IF IsToken(line, fl) THEN [raw |-> c.tag, unified |-> u.tag]
                      ELSE last
           /\ seen' = IF IsToken(line, fl) /\ u.tag \notin Range(seen)
                      THEN Append(seen, u.tag) ELSE seen
    /\ n' = n + 1
    /\ UNCHANGED <<fl, vocab0, calls, line_read, converter, dataset>>

\* the file ends: the statements after the loop run
EndOfFile ==
    /\ pc = "loop"
    /\ result' = ReturnValue(frame)
    /\ pc' = IF ReturnValue(frame).err # "none" THEN "aborted" ELSE "returned"
    /\ UNCHANGED <<fl, vocab0, frame, n, calls, raw, last, seen, line_read,
                   converter, dataset>>

\* the caller passes the returned vocabulary to the next decode_file call
NextCall ==
    /\ pc = "returned"
    /\ calls < MaxCalls
    /\ n < MaxLines
    /\ frame' = Locals(result.label_to_id)
    /\ pc' = "loop"
    /\ calls' = calls + 1
    /\ raw' = <<>>
    /\ last' = NoToken
    /\ UNCHANGED <<fl, vocab0, result, n, seen, line_read, converter, dataset>>

Next == ReadLine \/ EndOfFile \/ NextCall

Spec == Init /\ [][Next]_vars

\* ------------------------------------------- the loop body, line by line
\* One decode_file call reading up to MaxReads lines, each a blank line or
\* a line of up to MaxColumns columns; the line read is kept in line_read.
MaxColumns == 3   \* columns of a line (line.split(' '))
MaxReads == 1     \* lines read

ColumnAlphabet == {S("a"), S("_"), S("None"), S("#"), O, I_PER}
ColumnLines ==
    {Blank} \cup
    {Cols(cs) : cs \in UNION {[1..k -> ColumnAlphabet] : k \in 1..MaxColumns}}

InitLine ==
    /\ fl \in Flags
    /\ vocab0 \in {<<>>, <<Item(<<"B", "person">>, 0), Item(O, 1)>>}
    /\ frame = Locals(vocab0)
    /\ pc = "loop"
    /\ result = Failure("pending")
    /\ n = 0
    /\ calls = 1
    /\ raw = <<>>
    /\ last = NoToken
    /\ seen = <<>>
    /\ line_read = NoLine
    /\ ConverterIdle
    /\ DatasetIdle

\* one iteration of "for n, line in enumerate(f)" on a line of columns
ReadColumns ==
    /\ pc = "loop"
    /\ n < MaxReads
    /\ \E line \in ColumnLines :
        LET s1 == LoopBody(frame, line, fl)
        IN /\ line_read' = line
           /\ frame' = s1
           /\ pc' = IF s1.err # "none" THEN "aborted" ELSE "loop"
           /\ result' = IF s1.err # "none" THEN Failure(s1.err) ELSE result
    /\ n' = n + 1
    /\ UNCHANGED <<fl, vocab0, calls, raw, last, seen, converter, dataset>>

NextLine == ReadColumns

SpecLine == InitLine /\ [][NextLine]_vars

\* ------------------------------------------------------------ get_dataset
MaxDatasets == 3  \* dataset names in the argument data

DataNames == KnownData \cup {"unknown"}
DataLists == UNION {[1..k -> DataNames] : k \in 0..MaxDatasets}
CustomData ==
    {[language |-> NoLanguage, files |-> <<File("train", "p1")>>],
     [language |-> "ja", files |-> <<File("train", "p1"), File("valid", "p2")>>],
     [language |-> NoLanguage, files |-> <<File("train", "p2"), File("valid", "missing")>>],
     [language |-> NoLanguage, files |-> <<File("train", "missing"), File("valid", "p2")>>],
     [language |-> NoLanguage, files |-> <<File("tmp", "p2")>>]}
DatasetVocabs ==
    {<<>>, <<Item(<<"B", "location">>, 0), Item(<<"B", "person">>, 1), Item(O, 2)>>}

InitDataset ==
    /\ \E f \in BOOLEAN, lc \in BOOLEAN, ks \in BOOLEAN, v \in DatasetVocabs :
          \/ \E ds \in DataLists :
                request = [kind |-> "data", data |-> ds, custom_data |-> NoCustom,
                           label_to_id |-> v,
                           fix_label_dict |-> f, lower_case |-> lc,
                           keep_original_surface |-> ks]
          \/ \E cd \in CustomData :
                request = [kind |-> "custom", data |-> <<>>, custom_data |-> cd,
                           label_to_id |-> v,
                           fix_label_dict |-> f, lower_case |-> lc,
                           keep_original_surface |-> ks]
    /\ label_to_id = request.label_to_id
    /\ data = <<>>
    /\ languages = <<>>
    /\ unseen_entity_set = {}
    /\ returned = [err |-> "pending"]
    /\ gpc = IF request.kind = "data" THEN "loop" ELSE "custom"
    /\ call = NoCall
    /\ reply = [err |-> "pending"]
    /\ opened = 0
    /\ DecoderIdle
    /\ ConverterIdle

\* one iteration of "for d in data_list"
LoadDataset ==
    /\ gpc = "loop"
    /\ Len(data) < Len(request.data)
    /\ LET c == [data_name |-> request.data[Len(data) + 1],
                 custom_data |-> NoCustom,
                 label_to_id |-> label_to_id,
                 fix_label_dict |-> request.fix_label_dict,
                 lower_case |-> request.lower_case,
                 keep_original_surface |-> FALSE]
       IN \E r \in {get_dataset_single(c)} :
          /\ call' = c
          /\ reply' = r
          /\ label_to_id' = r.label_to_id
          /\ opened' = opened + r.opened
          /\ IF r.err # "none"
             THEN /\ gpc' = "raised"
                  /\ returned' = Failure(r.err)
                  /\ UNCHANGED <<data, languages, unseen_entity_set>>
             ELSE /\ data' = Append(data, r.data_split_all)
                  /\ languages' = Append(languages, r.language)
                  /\ unseen_entity_set' = NextUnseen(unseen_entity_set, r.unseen_entity_set)
                  /\ UNCHANGED <<gpc, returned>>
    /\ UNCHANGED <<request, decoder, converter>>

\* the statements after the loop, up to the return
Merge ==
    /\ gpc = "loop"
    /\ Len(data) = Len(request.data)
    /\ IF Len(data) > 1
       THEN /\ gpc' = "done"
            /\ \E language \in MostFrequent(languages) :
                 returned' = [err |-> "none", unified_data |-> UnifiedTrain(data),
                              label_to_id |-> label_to_id, language |-> language,
                              unseen_entity_set |-> unseen_entity_set]
       ELSE IF Len(data) = 1
       THEN /\ gpc' = "done"
            /\ returned' = [err |-> "none", unified_data |-> data[1],
                            label_to_id |-> label_to_id, language |-> languages[1],
                            unseen_entity_set |-> unseen_entity_set]
       ELSE /\ gpc' = "raised"
            /\ returned' = Failure("IndexError")
    /\ UNCHANGED <<request, label_to_id, data, languages, unseen_entity_set,
                   call, reply, opened, decoder, converter>>

\* the branch "data is None": one get_dataset_single call on custom_data
LoadCustom ==
    /\ gpc = "custom"
    /\ LET c == [data_name |-> NoName,
                 custom_data |-> request.custom_data,
                 label_to_id |-> label_to_id,
                 fix_label_dict |-> request.fix_label_dict,
                 lower_case |-> request.lower_case,
                 keep_original_surface |-> request.keep_original_surface]
       IN \E r \in {get_dataset_single(c)} :
          /\ call' = c
          /\ reply' = r
          /\ label_to_id' = r.label_to_id
          /\ opened' = opened + r.opened
          /\ gpc' = IF r.err # "none" THEN "raised" ELSE "done"
          /\ returned' = IF r.err # "none" THEN Failure(r.err)
                         ELSE [err |-> "none", unified_data |-> r.data_split_all,
                               label_to_id |-> r.label_to_id, language |-> r.language,
                               unseen_entity_set |-> r.unseen_entity_set]
    /\ UNCHANGED <<request, data, languages, unseen_entity_set, decoder, converter>>

NextDataset == LoadDataset \/ Merge \/ LoadCustom

SpecDataset == InitDataset /\ [][NextDataset]_vars

\* ------------------------------------------------ claims on decode_file
Mention(tag) == DashJoin(Tail(DashSplit(tag)))
Injective(d) == \A i, j \in 1..Len(d) : d[i].id = d[j].id => i = j
SplitShape(sp) ==
    /\ Len(sp.data) = Len(sp.label)
    /\ \A i \in 1..Len(sp.data) : Len(sp.data[i]) = Len(sp.label[i])
    /\ "date" \in DOMAIN sp => Len(sp.date) = Len(sp.data)

\* C1: every fragment decode_file returns has as many label sequences as
\* sentences, as many label ids as tokens in every sentence and, when it
\* has a date field, as many dates as sentences; otherwise the call aborts.
C1_SplitShape == pc = "returned" => SplitShape(result.split)

C1_Witness ==
    /\ pc = "returned"
    /\ "date" \in DOMAIN result.split
    /\ Len(result.split.data) = 1
    /\ Len(result.split.data[1]) = 1

\* C2: at end of file a non-empty in-progress sentence is flushed as the
\* last entry of data and label.
C2_FlushAtEndOfFile ==
    (pc = "returned" /\ Len(frame.sentence) # 0) =>
        /\ Len(result.split.data) > 0
        /\ result.split.data[Len(result.split.data)] = frame.sentence
        /\ result.split.label[Len(result.split.label)] = frame.entity

\* the last token appended to the sentence in progress was coerced to "O"
\* when its tag is not a key of the caller's vocabulary
Coerced ==
    (pc = "loop" /\ Len(raw) >= 1 /\ last.unified \notin Keys(vocab0)) =>
        /\ O \in Keys(vocab0)
        /\ frame.entity[Len(frame.entity)] = Get(vocab0, O)

C4_FirstSeenOrder ==
    (vocab0 = <<>> /\ ~fl.fix_label_dict) =>
        /\ Len(frame.label_to_id) = Len(seen)
        /\ \A k \in 1..Len(seen) : frame.label_to_id[k] = Item(seen[k], k - 1)

C4_Witness ==
    /\ vocab0 = <<>>
    /\ ~fl.fix_label_dict
    /\ calls = 2
    /\ Len(seen) = 3

\* C5: with to_bio and without label pass-through, a non-O output tag has
\* prefix I when the preceding token of the sentence had a non-O tag of
\* the same mention, and prefix B otherwise.
C5_BioPrefix ==
    (fl.to_bio /\ ~fl.keep_original_surface /\ pc = "loop"
        /\ Len(raw) >= 1 /\ last.unified # O) =>
        last.unified[1] =
            IF /\ Len(raw) >= 2
               /\ raw[Len(raw) - 1] # O
               /\ Mention(raw[Len(raw) - 1]) = Mention(raw[Len(raw)])
            THEN "I" ELSE "B"

\* the labels of the returned vocabulary whose id is in no label sequence
Unassigned(r) ==
    {l \in Keys(r.label_to_id) :
        \A i \in 1..Len(r.split.label) :
            Get(r.label_to_id, l) \notin Range(r.split.label[i])}

\* C6 as stated: the unseen-label set is the set of labels of the returned
\* vocabulary assigned to no token, for any starting vocabulary.
C6_AnyVocabulary ==
    pc = "returned" => result.unseen_entity_label = Unassigned(result)

\* C6 amended: the same whenever no two labels of the returned vocabulary
\* share an id.
C6_UnseenLabels ==
    (pc = "returned" /\ Injective(result.label_to_id)) =>
        result.unseen_entity_label = Unassigned(result)

C6_Witness ==
    /\ pc = "returned"
    /\ Injective(result.label_to_id)
    /\ Len(result.split.label) >= 1
    /\ result.unseen_entity_label # {}
    /\ result.unseen_entity_label # Keys(result.label_to_id)

\* ----------------------------------- the converter followed by a decode
MaxTokens == 3    \* tokens in the in-memory rows

TokenAlphabet == {T("a"), T("."), T("None")}
TagAlphabet == {O, I_PER, S("junk")}

\* the rows of a flat sequence cut after the positions in cuts
RECURSIVE Chop(_, _, _)
Chop(flat, cuts, k) ==
    IF k > Len(flat) THEN <<>>
    ELSE LET e == CHOOSE j \in k..Len(flat) :
                      /\ j \in cuts \/ j = Len(flat)
                      /\ \A m \in k..(j - 1) : m \notin cuts
         IN <<SubSeq(flat, k, e)>> \o Chop(flat, cuts, e + 1)

\* rows with the last tag missing
DropLast(rows) ==
    [rows EXCEPT ![Len(rows)] = SubSeq(@, 1, Len(@) - 1)]

InitRoundTrip ==
    /\ \E len \in 1..MaxTokens :
         \E ft \in [1..len -> TokenAlphabet], fg \in [1..len -> TagAlphabet],
            cuts \in SUBSET (1..(len - 1)), short \in BOOLEAN :
            /\ tokens = Chop(ft, cuts, 1)
            /\ tags = IF short THEN DropLast(Chop(fg, cuts, 1)) ELSE Chop(fg, cuts, 1)
    /\ sentence_division \in {NoDivision, T(".")}
    /\ output_file = <<>>
    /\ decoded = [err |-> "pending"]
    /\ cpc = "format"
    /\ DecoderIdle
    /\ DatasetIdle

\* conll_formatting(tokens=tokens, tags=tags, sentence_division=...)
Format ==
    /\ cpc = "format"
    /\ LET r == conll_formatting(tokens, tags, sentence_division)
       IN IF r.err # "none"
          THEN /\ cpc' = "raised"
               /\ UNCHANGED output_file
          ELSE /\ cpc' = "decode"
               /\ output_file' = r.file
    /\ UNCHANGED <<tokens, tags, sentence_division, decoded, decoder, dataset>>

\* decode_file(output_file, label_to_id={}, keep_original_surface=True)
Decode ==
    /\ cpc = "decode"
    /\ \E b \in BOOLEAN, a \in BOOLEAN :
         decoded' = decode_file(ReadFile(output_file), <<>>,
                        [fix_label_dict |-> FALSE, entity_first |-> FALSE,
                         to_bio |-> b, allow_new_entity |-> a,
                         keep_original_surface |-> TRUE])
    /\ cpc' = "decoded"
    /\ UNCHANGED <<tokens, tags, sentence_division, output_file, decoder, dataset>>

NextRoundTrip == Format \/ Decode

SpecRoundTrip == InitRoundTrip /\ [][NextRoundTrip]_vars

\* ------------------------------------------------ claims on the round trip
OrdinaryToken(t) == Len(t) = 1 /\ t \notin STOPWORDS /\ t # T("_") /\ t # T("")
                    /\ ParseLine(t \o <<O>>).kind = "cols"

\* the rows the round trip is claimed for
RoundTripInput ==
    /\ Len(tokens) = Len(tags)
    /\ \A i \in 1..Len(tokens) :
        /\ Len(tokens[i]) # 0
        /\ Len(tokens[i]) = Len(tags[i])
        /\ \A j \in 1..Len(tokens[i]) :
            /\ OrdinaryToken(tokens[i][j])
            /\ tags[i][j] # S("junk")
            /\ (sentence_division # NoDivision /\ tokens[i][j] = sentence_division)
                  => j = Len(tokens[i])

\* the label rows mapped back through the returned vocabulary
TagsOf(r) ==
    [i \in 1..Len(r.split.label) |->
        [j \in 1..Len(r.split.label[i]) |-> Inverse(r.label_to_id)[r.split.label[i][j]]]]

LowerRows(rows) ==
    [k \in 1..Len(rows) |-> [j \in 1..Len(rows[k]) |-> lower(rows[k][j])]]

\* C8: the result of get_dataset_single with lower_case=True is the result
\* with lower_case=False with every token lower-cased; labels, vocabulary
\* and the other fields of every split are the same.
C8_LowerCaseOnlyTokens ==
    (reply.err = "none" /\ call.lower_case) =>
        LET plain == get_dataset_single([call EXCEPT !.lower_case = FALSE])
        IN /\ plain.err = "none"
           /\ reply.label_to_id = plain.label_to_id
           /\ Names(reply.data_split_all) = Names(plain.data_split_all)
           /\ \A i \in 1..Len(plain.data_split_all) :
                LET lo == reply.data_split_all[i].split
                    pl == plain.data_split_all[i].split
                IN /\ DOMAIN lo = DOMAIN pl
                   /\ lo.data = LowerRows(pl.data)
                   /\ \A f \in DOMAIN pl \ {"data"} : lo[f] = pl[f]

\* the most frequent language met first in dataset-argument order
FirstMostFrequent(langs) ==
    langs[CHOOSE i \in 1..Len(langs) :
            /\ langs[i] \in MostFrequent(langs)
            /\ \A j \in 1..(i - 1) : langs[j] \notin MostFrequent(langs)]

\* C9: for several datasets get_dataset returns the most frequent of their
\* language tags, and among equally frequent ones the first in argument
\* order.
C9_LanguageVote ==
    (gpc = "done" /\ request.kind = "data" /\ Len(request.data) > 1) =>
        returned.language = FirstMostFrequent(languages)

\* the number of train sentences of the datasets before the i-th
RECURSIVE Offset(_, _)
Offset(ds, i) ==
    IF i = 1 THEN 0
    ELSE Offset(ds, i - 1) + Len(SplitOf(ds[i - 1], "train").data)

\* C10: for several datasets the result has the single split train, whose
\* data and label are the datasets' train data and label one after the
\* other in argument order; for one dataset the result is all its splits.
C10_MergeTrainOnly ==
    (gpc = "done" /\ request.kind = "data") =>
        IF Len(request.data) > 1
        THEN /\ Names(returned.unified_data) = <<"train">>
             /\ LET train == SplitOf(returned.unified_data, "train")
                IN /\ DOMAIN train = {"data", "label"}
                   /\ Len(train.data) = Offset(data, Len(data) + 1)
                   /\ Len(train.label) = Len(train.data)
                   /\ \A i \in 1..Len(data) :
                        \A k \in 1..Len(SplitOf(data[i], "train").data) :
                            /\ train.data[Offset(data, i) + k]
                                  = SplitOf(data[i], "train").data[k]
                            /\ train.label[Offset(data, i) + k]
                                  = SplitOf(data[i], "train").label[k]
        ELSE /\ returned.unified_data = reply.data_split_all
             /\ Names(returned.unified_data) = Names(Preset(request.data[1]).files_info)

C10_Witness ==
    /\ gpc = "done"
    /\ request.kind = "data"
    /\ request.data = <<"fin", "conll2003", "mit_restaurant">>
    /\ Len(SplitOf(returned.unified_data, "train").data) = 3

\* C11: when get_dataset raises the configuration error (an unknown dataset
\* name or a custom path that does not exist), no file has been opened by
\* decode_file and the vocabulary is the one the caller passed, whether the
\* request is one name, a list of names or a custom-data mapping.
C11_ErrorBeforeDecoding ==
    (gpc = "raised" /\ returned.err = "ValueError") =>
        /\ opened = 0
        /\ label_to_id = request.label_to_id

\* C13: the unseen-label set of get_dataset over a list of datasets is the
\* intersection of the datasets' unseen-label sets: it is the first
\* dataset's set after the first dataset, and after every later dataset the
\* intersection of the set so far with that dataset's set, empty sets
\* included.
C13_UnseenIntersection ==
    [][(gpc = "loop" /\ reply' # reply /\ reply'.err = "none") =>
          unseen_entity_set' =
             IF Len(data) = 0 THEN reply'.unseen_entity_set
             ELSE unseen_entity_set \cap reply'.unseen_entity_set]_vars

\* C15: past_mention is "O" whenever the loop of decode_file stands at the
\* start of a sentence: at the first line of every call and after every
\* blank or -DOCSTART- line.
C15_PastMentionReset ==
    (pc = "loop" /\ frame.sentence = <<>>) => frame.past_mention = O

\* one decoded split re-tokenized from that split alone
Retokenized(sp, d) ==
    LET fixed(k) == fix_ja_labels(sp.data[k],
                        [j \in 1..Len(sp.label[k]) |-> Inverse(d)[sp.label[k][j]]])
    IN [data |-> [k \in 1..Len(sp.data) |-> fixed(k).data],
        label |-> [k \in 1..Len(sp.data) |->
                     [j \in 1..Len(fixed(k).label) |-> Get(d, fixed(k).label[j])]]]

\* C16: after the Japanese post-processing of get_dataset_single every
\* split holds, in order, one re-tokenized sentence and one label sequence
\* per sentence decoded for that split, and nothing from another split.
C16_JaPerSplit ==
    (/\ reply.err = "none"
     /\ call.data_name \in KnownData
     /\ Preset(call.data_name).post_process_ja) =>
        LET cfg == Preset(call.data_name)
            a == decode_all_files(cfg.files_info, call.label_to_id, call.data_name,
                                  SingleFlags(call, cfg))
        IN \A i \in 1..Len(a.data_split) :
              LET want == Retokenized(a.data_split[i].split, a.label_to_id)
                  got == reply.data_split_all[i].split
              IN /\ Len(got.data) = Len(a.data_split[i].split.data)
                 /\ Len(got.label) = Len(got.data)
                 /\ got.label = want.label
                 /\ got.data = IF call.lower_case THEN LowerRows(want.data)
                                ELSE want.data

\* --------------------------------------------- claims on the loop body
\* the columns of a token line as the format defines them: the tag is the
\* first column under entity_first and the last one otherwise, the token is
\* the other columns joined by single spaces
TagColumn(ls, entity_first) == IF entity_first THEN ls[1] ELSE ls[Len(ls)]
TokenColumns(ls, entity_first) ==
    IF entity_first THEN SubSeq(ls, 2, Len(ls)) ELSE SubSeq(ls, 1, Len(ls) - 1)
LineToken(ls, entity_first) == SpaceJoin(TokenColumns(ls, entity_first))

\* a line of at least two columns, underscore placeholders discarded
TokenColumnsLine(line) == line.kind = "cols" /\ Len(Columns(line)) >= 2

\* C12: no token of the sentence being read is a stopword, and reading a
\* line whose token is a stopword appends nothing to the sentence and no id
\* to its labels, under every flag combination.
C12_StopwordsSkipped ==
    [][/\ \A i \in 1..Len(frame'.sentence) : frame'.sentence[i] \notin STOPWORDS
       /\ (/\ TokenColumnsLine(line_read')
           /\ LineToken(Columns(line_read'), fl.entity_first) \in STOPWORDS)
          => /\ frame'.sentence = frame.sentence
             /\ frame'.entity = frame.entity
             /\ frame'.labels = frame.labels]_vars

\* C14: for a line of at least two columns the tag is the first column
\* under entity_first and the last column otherwise, the token is all the
\* other columns joined by single spaces, and the token the line appends to
\* the sentence is that token and is not empty.
C14_ColumnSplit ==
    [][TokenColumnsLine(line_read') =>
        LET ls == Columns(line_read')
            c == SplitColumns(ls, fl.entity_first)
        IN /\ c.tag = TagColumn(ls, fl.entity_first)
           /\ c.word = LineToken(ls, fl.entity_first)
           /\ Len(frame'.sentence) > Len(frame.sentence) =>
                /\ frame'.sentence[Len(frame'.sentence)] = LineToken(ls, fl.entity_first)
                /\ frame'.sentence[Len(frame'.sentence)] # EmptyToken]_vars

====
